---- MODULE Spec2Model ----
(***************************************************************************)
(* Model of the document-outline and section-ranking pipeline of           *)
(* src/app.py (vector-space strategy, run_full_pipeline) and               *)
(* src/extract_pdf_text.py (count strategy, main).                         *)
(*                                                                         *)
(* Strings are sequences of one-character strings, so that the regular     *)
(* expressions, str.strip, str.count and the tokenisers are modelled by    *)
(* what they do to characters.  Chars("ab") is <<"a", "b">>.               *)
(***************************************************************************)
EXTENDS Integers, Sequences, FiniteSets, TLC

VARIABLES
    pc,               \* position in the running function
    arg,              \* argument of a directly called helper (get_heading_level)
    ret,              \* its return value
    files,            \* doc_paths / input_data['documents']: the decoded documents
    focus,            \* focus_keywords_str (app.py) or persona.focus_areas (extract_pdf_text.py)
    job,              \* job_to_be_done string
    strategy,         \* "tfidf" (app.py) or "count" (extract_pdf_text.py)
    ranking_keywords, \* the keyword list handed to the ranker
    doc_i,            \* index of the document process_document is working on
    headings,         \* process_document: headings
    nodes,            \* the OutlineNode objects of the current document, by creation order
    outline,          \* process_document: outline (references to top-level nodes)
    cleaned,          \* process_document: cleaned (references to nodes)
    all_sections,     \* run_full_pipeline / main: all_sections
    ranked_sections,  \* run_full_pipeline / main: ranked_sections
    output            \* the report (output_json), or the exception that ended the run

vars == <<pc, arg, ret, files, focus, job, strategy, ranking_keywords, doc_i,
          headings, nodes, outline, cleaned, all_sections, ranked_sections, output>>

---------------------------------------------------------------------------
(* Characters and strings *)

Chars(s) == [i \in 1..Len(s) |-> SubSeq(s, i, i)]

DigitChars == {"0", "1", "2", "3", "4", "5", "6", "7", "8", "9"}

UpperChars == Chars("ABCDEFGHIJKLMNOPQRSTUVWXYZ")

LowerChars == Chars("abcdefghijklmnopqrstuvwxyz")

\* a Japanese character of the ranges detect_language tests, written as a token
JpChar == "<U+65E5>"

IsDigit(c) == c \in DigitChars

IsAlpha(c) == \E i \in 1..26 : c = UpperChars[i] \/ c = LowerChars[i]

\* \w of the re module: letters, digits, underscore (and the CJK letter)
IsWord(c) == IsAlpha(c) \/ IsDigit(c) \/ c = "_" \/ c = JpChar

\* the characters str.strip() and str.split() treat as whitespace
IsSpace(c) == c \in {" ", "\n", "\t"}

LowerChar(c) ==
    IF \E i \in 1..26 : c = UpperChars[i]
    THEN LowerChars[CHOOSE i \in 1..26 : c = UpperChars[i]]
    ELSE c

\* str.lower()
Lower(s) == [i \in 1..Len(s) |-> LowerChar(s[i])]

\* str.strip()
Strip(s) ==
    LET keep == {i \in 1..Len(s) : ~IsSpace(s[i])}
    IN  IF keep = {} THEN <<>>
        ELSE LET lo == CHOOSE i \in keep : \A j \in keep : i <= j
                 hi == CHOOSE i \in keep : \A j \in keep : j <= i
             IN  SubSeq(s, lo, hi)

\* s[at:at+len(sub)] == sub
MatchesAt(s, sub, at) ==
    /\ at >= 1
    /\ at + Len(sub) - 1 <= Len(s)
    /\ \A k \in 1..Len(sub) : s[at + k - 1] = sub[k]

\* sub in s
Contains(s, sub) == \E at \in 1..(Len(s) + 1) : MatchesAt(s, sub, at)

\* s.startswith(sub)
StartsWith(s, sub) == MatchesAt(s, sub, 1)

RECURSIVE CountFrom(_, _, _)
\* str.count(sub): non-overlapping occurrences, scanning left to right; the
\* empty string occurs len(s) + 1 times
CountFrom(s, sub, at) ==
    IF Len(sub) = 0 THEN Len(s) + 2 - at
    ELSE IF at + Len(sub) - 1 > Len(s) THEN 0
    ELSE IF MatchesAt(s, sub, at) THEN 1 + CountFrom(s, sub, at + Len(sub))
    ELSE CountFrom(s, sub, at + 1)

Count(s, sub) == CountFrom(s, sub, 1)

RECURSIVE Join(_, _)
\* sep.join(parts)
Join(parts, sep) ==
    IF Len(parts) = 0 THEN <<>>
    ELSE IF Len(parts) = 1 THEN parts[1]
    ELSE parts[1] \o sep \o Join(Tail(parts), sep)

RECURSIVE Concat(_)
\* ''.join(parts)
Concat(parts) == IF Len(parts) = 0 THEN <<>> ELSE parts[1] \o Concat(Tail(parts))

Range(f) == {f[i] : i \in DOMAIN f}

Max(S) == CHOOSE x \in S : \A y \in S : y <= x

---------------------------------------------------------------------------
(* get_heading_level *)

RECURSIVE DigitRun(_, _)
\* how many characters \d+ consumes from position at (0: no match)
DigitRun(text, at) ==
    IF at <= Len(text) /\ IsDigit(text[at]) THEN 1 + DigitRun(text, at + 1) ELSE 0

RECURSIVE DottedGroups(_, _)
\* (\.\d+)* from position at: the position after the last group matched
DottedGroups(text, at) ==
    IF at <= Len(text) /\ text[at] = "." /\ DigitRun(text, at + 1) > 0
    THEN DottedGroups(text, at + 1 + DigitRun(text, at + 1))
    ELSE at

\* re.match(r'^(\d+(\.\d+)*)', text).group(1); <<>> when there is no match
MatchGroup1(text) ==
    IF DigitRun(text, 1) = 0 THEN <<>>
    ELSE SubSeq(text, 1, DottedGroups(text, 1 + DigitRun(text, 1)) - 1)

get_heading_level_alldots(text) ==
    IF MatchGroup1(text) /= <<>> THEN Count(text, <<".">>) + 1 ELSE 1

get_heading_level(text) ==
    IF MatchGroup1(text) /= <<>> THEN Count(MatchGroup1(text), <<".">>) + 1 ELSE 1

---------------------------------------------------------------------------
(* Line Grouper and extract_headings_and_positions.                        *)
(* A document is [name, pages]; a page is [chars]; a character is          *)
(* [text, top2, size] with top2 the vertical offset in half points, so     *)
(* that round(char['top']) has halves to round.                            *)

FontSizeThreshold == 15

\* round(char['top']): Python rounds halves to the even neighbour
Round2(top2) ==
    IF top2 % 2 = 0 THEN top2 \div 2
    ELSE IF (top2 \div 2) % 2 = 0 THEN top2 \div 2 ELSE (top2 \div 2) + 1

RECURSIVE SortedSeq(_)
\* sorted(keys)
SortedSeq(S) ==
    IF S = {} THEN <<>>
    ELSE LET m == CHOOSE x \in S : \A y \in S : x <= y
         IN  <<m>> \o SortedSeq(S \ {m})

\* the keys of the lines dictionary of a page
LineKeys(page) == {Round2(page.chars[i].top2) : i \in DOMAIN page.chars}

\* lines[y]: the page's characters of rounded offset y, in page.chars order
LineChars(page, y) == SelectSeq(page.chars, LAMBDA c : Round2(c.top2) = y)

\* ''.join(c['text'] for c in chars)
CharsText(chars) == [i \in 1..Len(chars) |-> chars[i].text]

RECURSIVE SumSizes(_)
SumSizes(chars) ==
    IF Len(chars) = 0 THEN 0 ELSE chars[1].size + SumSizes(Tail(chars))

\* avg_size >= font_size_threshold and line_text
IsHeadingLine(chars) ==
    /\ SumSizes(chars) >= FontSizeThreshold * Len(chars)
    /\ Strip(CharsText(chars)) /= <<>>

\* the heading dictionary of a qualifying line (font_size: the average, floored)
HeadingOf(page_num, y, chars) ==
    [page |-> page_num,
     title |-> Strip(CharsText(chars)),
     font_size |-> SumSizes(chars) \div Len(chars),
     level |-> get_heading_level(Strip(CharsText(chars))),
     y0 |-> y]

RECURSIVE HeadingsOfKeys(_, _, _)
HeadingsOfKeys(page, page_num, ys) ==
    IF Len(ys) = 0 THEN <<>>
    ELSE (IF IsHeadingLine(LineChars(page, ys[1]))
          THEN <<HeadingOf(page_num, ys[1], LineChars(page, ys[1]))>>
          ELSE <<>>)
         \o HeadingsOfKeys(page, page_num, Tail(ys))

RECURSIVE HeadingsFromPage(_, _)
HeadingsFromPage(doc, page_num) ==
    IF page_num > Len(doc.pages) THEN <<>>
    ELSE HeadingsOfKeys(doc.pages[page_num], page_num,
                        SortedSeq(LineKeys(doc.pages[page_num])))
         \o HeadingsFromPage(doc, page_num + 1)

extract_headings_and_positions(doc) == HeadingsFromPage(doc, 1)

---------------------------------------------------------------------------
(* build_hierarchy.  The node dictionaries are objects shared by reference *)
(* between outline, cleaned and the flattened lists: nodes[k] is the node  *)
(* created for headings[k], and the lists hold the indices k.              *)

NodeOf(heading) ==
    [title |-> heading.title,
     page |-> heading.page,
     font_size |-> heading.font_size,
     y0 |-> heading.y0,
     subheadings |-> <<>>,
     text |-> <<>>]

\* the loop with > for >=: an equal level stays open
RECURSIVE PopWhileGreater(_, _)
PopWhileGreater(stack, level) ==
    IF Len(stack) > 0 /\ stack[Len(stack)].level > level
    THEN PopWhileGreater(SubSeq(stack, 1, Len(stack) - 1), level)
    ELSE stack

RECURSIVE PopWhile(_, _)
\* while stack and stack[-1]["level"] >= level: stack.pop()
PopWhile(stack, level) ==
    IF Len(stack) > 0 /\ stack[Len(stack)].level >= level
    THEN PopWhile(SubSeq(stack, 1, Len(stack) - 1), level)
    ELSE stack

\* one iteration of the loop of build_hierarchy, for headings[k];
\* st = [nodes, outline, stack]
BuildStep(st, hs, k) ==
    LET level  == hs[k].level
        popped == PopWhile(st.stack, level)
        top    == popped[Len(popped)].node
    IN  [nodes |->
            IF Len(popped) > 0
            THEN [Append(st.nodes, NodeOf(hs[k])) EXCEPT
                    ![top].subheadings = Append(@, k)]
            ELSE Append(st.nodes, NodeOf(hs[k])),
         outline |-> IF Len(popped) > 0 THEN st.outline ELSE Append(st.outline, k),
         stack |-> Append(popped, [level |-> level, node |-> k])]

RECURSIVE BuildLoop(_, _, _)
BuildLoop(st, hs, k) ==
    IF k > Len(hs) THEN st ELSE BuildLoop(BuildStep(st, hs, k), hs, k + 1)

\* build_hierarchy(headings): the nodes it creates and the outline it returns
build_hierarchy(hs) ==
    BuildLoop([nodes |-> <<>>, outline |-> <<>>, stack |-> <<>>], hs, 1)

---------------------------------------------------------------------------
(* clean_headings *)

NumericChars == DigitChars \cup {" ", "%", ".", "-", ","}

\* the tests applied to the title as it stands, without .strip()
DropTitleUntrimmed(title) ==
    \/ Len(title) < 3
    \/ \A i \in 1..Len(title) : title[i] \in NumericChars
    \/ Contains(title, Chars("www."))
    \/ StartsWith(Lower(title), Chars("submitted"))

\* the three `continue` tests of the loop, on text = h['title'].strip()
DropTitle(title) ==
    LET text == Strip(title)
    IN  \/ Len(text) < 3
        \/ \A i \in 1..Len(text) : text[i] \in NumericChars
        \/ Contains(text, Chars("www."))
        \/ StartsWith(Lower(text), Chars("submitted"))

\* clean_headings(hs): the references of hs whose node is kept, in order
clean_headings(hs, ns) == SelectSeq(hs, LAMBDA k : ~DropTitle(ns[k].title))

---------------------------------------------------------------------------
(* flatten_outline *)

\* a listing of the top-level nodes alone
flatten_outline_toplevel(ol, ns) == ol

RECURSIVE flatten_outline(_, _)
\* depth-first, a node before its subheadings
flatten_outline(ol, ns) ==
    IF Len(ol) = 0 THEN <<>>
    ELSE <<ol[1]>> \o flatten_outline(ns[ol[1]].subheadings, ns)
                   \o flatten_outline(Tail(ol), ns)

---------------------------------------------------------------------------
(* extract_section_texts *)

NL == <<"\n">>

RECURSIVE LinesBelow(_, _, _)
\* first page of a span: the stripped, non-empty lines with y > start_y
LinesBelow(page, ys, start_y) ==
    IF Len(ys) = 0 THEN <<>>
    ELSE (IF ys[1] > start_y /\ Strip(CharsText(LineChars(page, ys[1]))) /= <<>>
          THEN <<Strip(CharsText(LineChars(page, ys[1])))>>
          ELSE <<>>)
         \o LinesBelow(page, Tail(ys), start_y)

\* page.extract_text() or "": the text of the page's lines from top to
\* bottom, one per line
PageText(page) ==
    LET ys == SortedSeq(LineKeys(page))
    IN  Join([i \in 1..Len(ys) |-> CharsText(LineChars(page, ys[i]))], NL)

\* what one page of the span adds to section_text
PageContribution(doc, page_num, start_page, start_y) ==
    IF page_num = start_page
    THEN Join(LinesBelow(doc.pages[page_num],
                         SortedSeq(LineKeys(doc.pages[page_num])), start_y), NL) \o NL
    ELSE PageText(doc.pages[page_num]) \o NL

RECURSIVE SpanText(_, _, _, _, _)
\* for page_num in range(start_page, end_page + 1)
SpanText(doc, page_num, end_page, start_page, start_y) ==
    IF page_num > end_page THEN <<>>
    ELSE PageContribution(doc, page_num, start_page, start_y)
         \o SpanText(doc, page_num + 1, end_page, start_page, start_y)

\* the text stored in flat_headings[i]
SectionText(doc, ns, flat, i) ==
    LET heading   == ns[flat[i]]
        end_page  == IF i + 1 <= Len(flat) THEN ns[flat[i + 1]].page
                     ELSE Len(doc.pages)
    IN  Strip(SpanText(doc, heading.page, end_page, heading.page, heading.y0))

\* extract_section_texts(pdf_path, outline): the nodes after the loop
extract_section_texts(doc, ol, ns) ==
    LET flat == flatten_outline(ol, ns)
    IN  [k \in DOMAIN ns |->
            IF \E i \in 1..Len(flat) : flat[i] = k
            THEN [ns[k] EXCEPT !.text =
                    SectionText(doc, ns, flat, CHOOSE i \in 1..Len(flat) : flat[i] = k)]
            ELSE ns[k]]

---------------------------------------------------------------------------
(* detect_language, add_language_to_outline *)

detect_language(text) ==
    IF \E i \in 1..Len(text) : text[i] = JpChar THEN "jp" ELSE "en"

\* a dictionary with one more key
WithKey(rec, key, val) ==
    [f \in DOMAIN rec \cup {key} |-> IF f = key THEN val ELSE rec[f]]

\* add_language_to_outline(outline): every node reachable from the list
add_language_to_outline(ol, ns) ==
    LET flat == flatten_outline(ol, ns)
    IN  [k \in DOMAIN ns |->
            IF k \in Range(flat)
            THEN WithKey(ns[k], "language", detect_language(ns[k].text))
            ELSE ns[k]]

\* flat_sections of process_document, each with its 'document' key
FlatSections(doc, ol, ns) ==
    LET flat == flatten_outline(ol, ns)
    IN  [i \in 1..Len(flat) |-> WithKey(ns[flat[i]], "document", doc.name)]

---------------------------------------------------------------------------
(* The rankers *)

ExcerptLen == 150

\* sec.get(key, default)
Get(rec, key, default) == IF key \in DOMAIN rec THEN rec[key] ELSE default

\* text[:150].replace("\n", " ")
Excerpt(text) ==
    LET cut == SubSeq(text, 1, IF Len(text) < ExcerptLen THEN Len(text) ELSE ExcerptLen)
    IN  [i \in 1..Len(cut) |-> IF cut[i] = "\n" THEN " " ELSE cut[i]]

\* the section_info dictionary both rankers build
SectionInfo(sec, score) ==
    [title |-> sec.title,
     page |-> sec.page,
     language |-> Get(sec, "language", "unknown"),
     font_size |-> Get(sec, "font_size", 0),
     score |-> score,
     text_excerpt |-> Excerpt(Get(sec, "text", <<>>)),
     document |-> Get(sec, "document", "")]

\* an unstable variant: x goes before the entries of equal score
InsertByScoreFront(sorted, x) ==
    LET k == Cardinality({j \in 1..Len(sorted) : sorted[j].score > x.score})
    IN  SubSeq(sorted, 1, k) \o <<x>> \o SubSeq(sorted, k + 1, Len(sorted))

\* list.sort(key=score, reverse=True) inserts x behind every entry whose
\* score is at least its own: the sort is stable
InsertByScore(sorted, x) ==
    LET k == Cardinality({j \in 1..Len(sorted) : sorted[j].score >= x.score})
    IN  SubSeq(sorted, 1, k) \o <<x>> \o SubSeq(sorted, k + 1, Len(sorted))

RECURSIVE SortByScore(_, _)
\* scored_sections.sort(key=lambda x: x[0], reverse=True), entries from k on
SortByScore(sorted, rest) ==
    IF Len(rest) = 0 THEN sorted
    ELSE SortByScore(InsertByScore(sorted, rest[1]), Tail(rest))

RECURSIVE KeywordScore(_, _)
\* for kw in keywords: score += text_lower.count(kw.lower())
KeywordScore(text_lower, kws) ==
    IF Len(kws) = 0 THEN 0
    ELSE Count(text_lower, Lower(kws[1])) + KeywordScore(text_lower, Tail(kws))

\* every entry passes
KeepAll(info) == TRUE

\* the filter of the return statement of rank_sections_by_keywords

KeepScored(info) == info.score > 0

\* rank_sections_by_keywords(sections, keywords)
rank_sections_by_keywords(sections, kws) ==
    LET scored == [i \in 1..Len(sections) |->
                     SectionInfo(sections[i],
                                 KeywordScore(Lower(Get(sections[i], "text", <<>>)), kws))]
    IN  SelectSeq(SortByScore(<<>>, scored), KeepScored)

---------------------------------------------------------------------------
(* rank_sections_tfidf.  TfidfVectorizer(stop_words='english') is library  *)
(* code: lowercase, tokens \b\w\w+\b, English stop words removed, raw term *)
(* counts times idf = ln((1 + n) / (1 + df)) + 1, rows normalised to unit  *)
(* length.  The weights are kept in fixed point: idf in tenths, a score in *)
(* ten-thousandths of the cosine.                                          *)

RECURSIVE WordRun(_, _)
\* how many word characters follow from position at
WordRun(s, at) ==
    IF at <= Len(s) /\ IsWord(s[at]) THEN 1 + WordRun(s, at + 1) ELSE 0

RECURSIVE WordTokens(_, _)
\* re.findall(r'\b\w\w+\b', s) from position at: the maximal runs of word
\* characters that are at least two long
WordTokens(s, at) ==
    IF at > Len(s) THEN <<>>
    ELSE IF WordRun(s, at) = 0 THEN WordTokens(s, at + 1)
    ELSE (IF WordRun(s, at) >= 2 THEN <<SubSeq(s, at, at + WordRun(s, at) - 1)>>
          ELSE <<>>)
         \o WordTokens(s, at + WordRun(s, at))

\* the members of sklearn's English stop word list that the texts of this
\* model can contain
EnglishStopWords ==
    {Chars("of"), Chars("the"), Chars("for"), Chars("and"), Chars("to"),
     Chars("in"), Chars("on"), Chars("an"), Chars("with"), Chars("by"),
     Chars("from"), Chars("at"), Chars("is"), Chars("as")}

\* the analyzer of the vectorizer
Analyze(text) ==
    SelectSeq(WordTokens(Lower(text), 1), LAMBDA t : t \notin EnglishStopWords)

\* ln(k) in tenths, k = 1 .. 24
LnTenths ==
    <<0, 7, 11, 14, 16, 18, 19, 21, 22, 23, 24, 25,
      26, 26, 27, 28, 28, 29, 29, 30, 30, 31, 31, 32>>

\* idf of a term that df of the n documents contain, in tenths
Idf(n, df) == LnTenths[1 + n] - LnTenths[1 + df] + 10

TermCount(tokens, t) == Cardinality({i \in 1..Len(tokens) : tokens[i] = t})

RECURSIVE SumOver(_, _)
\* the sum of f[t] over the terms of T
SumOver(f, T) ==
    IF T = {} THEN 0
    ELSE LET t == CHOOSE x \in T : TRUE IN f[t] + SumOver(f, T \ {t})

RECURSIVE ISqrtFrom(_, _)
ISqrtFrom(x, r) == IF (r + 1) * (r + 1) > x THEN r ELSE ISqrtFrom(x, r + 1)

\* the integer square root
ISqrt(x) == ISqrtFrom(x, 0)

\* (tfidf_matrix * query_vec.T)[i], for analysed documents and query over
\* the fitted vocabulary
TfidfScore(docs, i, query, vocabulary) ==
    LET n      == Len(docs)
        df     == [t \in vocabulary |->
                     Cardinality({j \in 1..n : TermCount(docs[j], t) > 0})]
        wd     == [t \in vocabulary |-> TermCount(docs[i], t) * Idf(n, df[t])]
        wq     == [t \in vocabulary |-> TermCount(query, t) * Idf(n, df[t])]
        dot    == SumOver([t \in vocabulary |-> wd[t] * wq[t]], vocabulary)
        norm_d == ISqrt(SumOver([t \in vocabulary |-> wd[t] * wd[t]], vocabulary))
        norm_q == ISqrt(SumOver([t \in vocabulary |-> wq[t] * wq[t]], vocabulary))
    IN  IF dot = 0 THEN 0 ELSE (dot * 10000) \div (norm_d * norm_q)

\* every score passes
KeepAllScores(score) == TRUE

\* the test `if score > 0` of the loop over the scores

KeepPositive(score) == score > 0

\* a query made of the first keyword alone
QueryTextFirst(kws) == IF Len(kws) = 0 THEN <<>> ELSE Lower(kws[1])

\* query = " ".join(keywords).lower()
QueryText(kws) == Lower(Join(kws, <<" ">>))

\* the ranker without its test for an empty input: the vectorizer is fitted
\* on no documents
rank_sections_tfidf_unguarded(sections, kws) ==
    LET docs == [i \in 1..Len(sections) |-> Analyze(Get(sections[i], "text", <<>>))]
        vocabulary == UNION {Range(docs[i]) : i \in 1..Len(docs)}
    IN  IF vocabulary = {}
        THEN [raised |-> "ValueError: empty vocabulary", ranked |-> <<>>]
        ELSE [raised |-> "",
              ranked |-> SortByScore(<<>>,
                  SelectSeq([i \in 1..Len(sections) |->
                                SectionInfo(sections[i],
                                    TfidfScore(docs, i, Analyze(Lower(Join(kws, <<" ">>))),
                                               vocabulary))],
                            LAMBDA x : KeepPositive(x.score)))]

\* rank_sections_tfidf(sections, keywords): [raised, ranked]
rank_sections_tfidf(sections, kws) ==
    LET query  == QueryText(kws)
        docs   == [i \in 1..Len(sections) |-> Analyze(Get(sections[i], "text", <<>>))]
        vocabulary == UNION {Range(docs[i]) : i \in 1..Len(docs)}
        scored == [i \in 1..Len(sections) |->
                     SectionInfo(sections[i],
                                 TfidfScore(docs, i, Analyze(query), vocabulary))]
    IN  IF Len(docs) = 0 THEN [raised |-> "", ranked |-> <<>>]
        ELSE IF vocabulary = {}
             THEN [raised |-> "ValueError: empty vocabulary", ranked |-> <<>>]
        ELSE [raised |-> "",
              ranked |-> SortByScore(<<>>,
                             SelectSeq(scored, LAMBDA x : KeepPositive(x.score)))]

---------------------------------------------------------------------------
(* Ranking keywords *)

RECURSIVE AlphaTokens(_, _)
\* re.findall(r'\b[a-zA-Z]{2,}\b', s) from position at: the maximal runs of
\* word characters that are letters only and at least two long
AlphaTokens(s, at) ==
    IF at > Len(s) THEN <<>>
    ELSE IF WordRun(s, at) = 0 THEN AlphaTokens(s, at + 1)
    ELSE (IF /\ WordRun(s, at) >= 2
             /\ \A i \in at..(at + WordRun(s, at) - 1) : IsAlpha(s[i])
          THEN <<SubSeq(s, at, at + WordRun(s, at) - 1)>>
          ELSE <<>>)
         \o AlphaTokens(s, at + WordRun(s, at))

RECURSIVE SplitAt(_, _, _)
\* s.split(sep) for a one-character sep; piece is the part read so far
SplitAt(s, sep, piece) ==
    IF Len(s) = 0 THEN <<piece>>
    ELSE IF s[1] = sep THEN <<piece>> \o SplitAt(Tail(s), sep, <<>>)
    ELSE SplitAt(Tail(s), sep, Append(piece, s[1]))

RECURSIVE SplitSpace(_, _)
\* s.split(): the maximal runs of non-whitespace characters
SplitSpace(s, piece) ==
    IF Len(s) = 0 THEN (IF Len(piece) > 0 THEN <<piece>> ELSE <<>>)
    ELSE IF IsSpace(s[1])
         THEN (IF Len(piece) > 0 THEN <<piece>> ELSE <<>>) \o SplitSpace(Tail(s), <<>>)
    ELSE SplitSpace(Tail(s), Append(piece, s[1]))

\* the stopwords set of extract_keywords_from_title_or_focus
Stopwords ==
    {Chars("for"), Chars("and"), Chars("of"), Chars("the"), Chars("in"),
     Chars("on"), Chars("to"), Chars("a"), Chars("an"), Chars("with"),
     Chars("by"), Chars("using"), Chars("from"), Chars("at"), Chars("is"),
     Chars("as")}

\* focus_keywords + job_tokens_filtered of extract_keywords_from_title_or_focus
CombinedKeywords(focus_keywords_str, job_to_be_done_str) ==
    LET pieces == SplitAt(focus_keywords_str, ",", <<>>)
        focus_keywords ==
            [i \in 1..Len(SelectSeq(pieces, LAMBDA k : Strip(k) /= <<>>)) |->
                Lower(Strip(SelectSeq(pieces, LAMBDA k : Strip(k) /= <<>>)[i]))]
        job_tokens == AlphaTokens(Lower(job_to_be_done_str), 1)
    IN  focus_keywords \o SelectSeq(job_tokens, LAMBDA t : t \notin Stopwords)

\* the lists list(set(xs)) can be: each member once, in any order
ListsOfSet(S) ==
    {q \in [1..Cardinality(S) -> S] : \A i, j \in DOMAIN q : i /= j => q[i] /= q[j]}

\* the values extract_keywords_from_title_or_focus can return
extract_keywords_from_title_or_focus(focus_keywords_str, job_to_be_done_str) ==
    ListsOfSet(Range(CombinedKeywords(focus_keywords_str, job_to_be_done_str)))

\* ranking_keywords of main: persona_keywords + job_keywords
MainKeywords(focus_areas, job_to_be_done_str) ==
    focus_areas \o SplitSpace(job_to_be_done_str, <<>>)

---------------------------------------------------------------------------
(* process_document, run_full_pipeline (app.py) and main                   *)
(* (extract_pdf_text.py), one action per call                              *)

doc == files[doc_i]

\* headings = extract_headings_and_positions(doc_path)
ExtractHeadings ==
    /\ pc = "headings"
    /\ headings' = extract_headings_and_positions(doc)
    /\ nodes' = <<>>
    /\ outline' = <<>>
    /\ cleaned' = <<>>
    /\ pc' = "build"
    /\ UNCHANGED <<arg, ret, files, focus, job, strategy, ranking_keywords, doc_i,
                   all_sections, ranked_sections, output>>

\* outline = build_hierarchy(headings)
BuildHierarchy ==
    /\ pc = "build"
    /\ nodes' = build_hierarchy(headings).nodes
    /\ outline' = build_hierarchy(headings).outline
    /\ pc' = "clean"
    /\ UNCHANGED <<arg, ret, files, focus, job, strategy, ranking_keywords, doc_i,
                   headings, cleaned, all_sections, ranked_sections, output>>

\* cleaned = clean_headings(outline)
CleanHeadings ==
    /\ pc = "clean"
    /\ cleaned' = clean_headings(outline, nodes)
    /\ pc' = "texts"
    /\ UNCHANGED <<arg, ret, files, focus, job, strategy, ranking_keywords, doc_i,
                   headings, nodes, outline, all_sections, ranked_sections, output>>

\* outline_with_text = extract_section_texts(doc_path, cleaned)
ExtractSectionTexts ==
    /\ pc = "texts"
    /\ nodes' = extract_section_texts(doc, cleaned, nodes)
    /\ pc' = "language"
    /\ UNCHANGED <<arg, ret, files, focus, job, strategy, ranking_keywords, doc_i,
                   headings, outline, cleaned, all_sections, ranked_sections, output>>

\* add_language_to_outline(outline_with_text)
AddLanguage ==
    /\ pc = "language"
    /\ nodes' = add_language_to_outline(cleaned, nodes)
    /\ pc' = "flatten"
    /\ UNCHANGED <<arg, ret, files, focus, job, strategy, ranking_keywords, doc_i,
                   headings, outline, cleaned, all_sections, ranked_sections, output>>

\* flat_sections = flatten_outline(outline_with_text), the 'document' keys,
\* the return, and all_sections.extend(...) in the caller's loop
ReturnSections ==
    /\ pc = "flatten"
    /\ all_sections' = all_sections \o FlatSections(doc, cleaned, nodes)
    /\ doc_i' = doc_i + 1
    /\ pc' = IF doc_i + 1 <= Len(files) THEN "headings" ELSE "rank"
    /\ UNCHANGED <<arg, ret, files, focus, job, strategy, ranking_keywords,
                   headings, nodes, outline, cleaned, ranked_sections, output>>

\* ranking_keywords = extract_keywords_from_title_or_focus(...)   (app.py)
KeywordsTfidf ==
    /\ pc = "keywords"
    /\ strategy = "tfidf"
    /\ ranking_keywords' \in extract_keywords_from_title_or_focus(focus, job)
    /\ pc' = IF Len(files) > 0 THEN "headings" ELSE "rank"
    /\ UNCHANGED <<arg, ret, files, focus, job, strategy, doc_i, headings, nodes,
                   outline, cleaned, all_sections, ranked_sections, output>>

\* ranking_keywords = persona_keywords + job_keywords   (extract_pdf_text.py)
KeywordsCount ==
    /\ pc = "keywords"
    /\ strategy = "count"
    /\ ranking_keywords' = MainKeywords(focus, job)
    /\ pc' = IF Len(files) > 0 THEN "headings" ELSE "rank"
    /\ UNCHANGED <<arg, ret, files, focus, job, strategy, doc_i, headings, nodes,
                   outline, cleaned, all_sections, ranked_sections, output>>

\* ranked_sections = rank_sections_tfidf(all_sections, ranking_keywords);
\* an exception leaves run_full_pipeline
RankTfidf ==
    /\ pc = "rank"
    /\ strategy = "tfidf"
    /\ LET r == rank_sections_tfidf(all_sections, ranking_keywords)
       IN  IF r.raised /= ""
           THEN /\ pc' = "raised"
                /\ output' = [error |-> r.raised]
                /\ UNCHANGED ranked_sections
           ELSE /\ pc' = "assign"
                /\ ranked_sections' = r.ranked
                /\ UNCHANGED output
    /\ UNCHANGED <<arg, ret, files, focus, job, strategy, ranking_keywords, doc_i,
                   headings, nodes, outline, cleaned, all_sections>>

\* ranked_sections = rank_sections_by_keywords(all_sections, ranking_keywords)
RankCount ==
    /\ pc = "rank"
    /\ strategy = "count"
    /\ ranked_sections' = rank_sections_by_keywords(all_sections, ranking_keywords)
    /\ pc' = "assign"
    /\ UNCHANGED <<arg, ret, files, focus, job, strategy, ranking_keywords, doc_i,
                   headings, nodes, outline, cleaned, all_sections, output>>

\* enumerate(ranked_sections) without the start value
assign_ranks_from_zero(ranked) ==
    [j \in 1..Len(ranked) |-> WithKey(ranked[j], "importance_rank", j - 1)]

\* for idx, sec in enumerate(ranked_sections, 1): sec['importance_rank'] = idx
assign_ranks(ranked) ==
    [j \in 1..Len(ranked) |-> WithKey(ranked[j], "importance_rank", j)]

AssignRanks ==
    /\ pc = "assign"
    /\ ranked_sections' = assign_ranks(ranked_sections)
    /\ pc' = "report"
    /\ UNCHANGED <<arg, ret, files, focus, job, strategy, ranking_keywords, doc_i,
                   headings, nodes, outline, cleaned, all_sections, output>>

\* "input_documents" of the metadata
InputDocuments == [i \in 1..Len(files) |-> files[i].name]

\* output_json of run_full_pipeline, without its timestamp
ReportTfidf ==
    [metadata |-> [input_documents |-> InputDocuments, job_to_be_done |-> job],
     ranked_sections |->
        [j \in 1..Len(ranked_sections) |->
            [document |-> ranked_sections[j].document,
             page_number |-> ranked_sections[j].page,
             section_title |-> ranked_sections[j].title,
             importance_rank |-> ranked_sections[j].importance_rank,
             score |-> ranked_sections[j].score,
             text_excerpt |-> ranked_sections[j].text_excerpt]]]

\* output_json of main, without its timestamp
ReportCount ==
    [metadata |-> [input_documents |-> InputDocuments, job_to_be_done |-> job],
     extracted_sections |->
        [j \in 1..Len(ranked_sections) |->
            [document |-> ranked_sections[j].document,
             page_number |-> ranked_sections[j].page,
             section_title |-> ranked_sections[j].title,
             importance_rank |-> ranked_sections[j].importance_rank]],
     sub_section_analysis |->
        [j \in 1..Len(ranked_sections) |->
            [document |-> ranked_sections[j].document,
             page_number |-> ranked_sections[j].page,
             section_title |-> ranked_sections[j].title,
             refined_text |-> ranked_sections[j].text_excerpt]]]

\* json.dump(output_json, f) and the return
WriteReport ==
    /\ pc = "report"
    /\ output' = IF strategy = "tfidf" THEN ReportTfidf ELSE ReportCount
    /\ pc' = "done"
    /\ UNCHANGED <<arg, ret, files, focus, job, strategy, ranking_keywords, doc_i,
                   headings, nodes, outline, cleaned, all_sections, ranked_sections>>

\* a direct call of get_heading_level(arg)
CallGetHeadingLevel ==
    /\ pc = "call_level"
    /\ ret' = get_heading_level(arg)
    /\ pc' = "returned"
    /\ UNCHANGED <<arg, files, focus, job, strategy, ranking_keywords, doc_i,
                   headings, nodes, outline, cleaned, all_sections, ranked_sections,
                   output>>

\* flatten_outline(build_hierarchy(headings)) called directly
CallFlattenOutline ==
    /\ pc = "clean"
    /\ ret' = flatten_outline(outline, nodes)
    /\ pc' = "flattened"
    /\ UNCHANGED <<arg, files, focus, job, strategy, ranking_keywords, doc_i,
                   headings, nodes, outline, cleaned, all_sections, ranked_sections,
                   output>>

---------------------------------------------------------------------------
(* Inputs *)

\* the sequences over S of length at most n
SeqsUpTo(S, n) == UNION {[1..k -> S] : k \in 0..n}

\* a line of a page: the characters of s at vertical offset y, all of one size
Line(y, size, s) ==
    [i \in 1..Len(s) |-> [text |-> SubSeq(s, i, i), top2 |-> 2 * y, size |-> size]]

\* a page from its lines
Page(lines) == [chars |-> Concat(lines)]

HeadingSize == 16

BodySize == 10

NoOutput == [pending |-> TRUE]

---------------------------------------------------------------------------
(* get_heading_level called on its own *)

MaxTextLen == 4

LevelAlphabet == {"1", "2", ".", "M", " "}

LevelTexts ==
    SeqsUpTo(LevelAlphabet, MaxTextLen)
        \cup {Chars("2.1.3 Methods"), Chars("Methods"), Chars("10.2 Results")}

InitLevel ==
    /\ pc = "call_level"
    /\ arg \in LevelTexts
    /\ ret = 0
    /\ files = <<>>
    /\ focus = <<>>
    /\ job = <<>>
    /\ strategy = "none"
    /\ ranking_keywords = <<>>
    /\ doc_i = 1
    /\ headings = <<>>
    /\ nodes = <<>>
    /\ outline = <<>>
    /\ cleaned = <<>>
    /\ all_sections = <<>>
    /\ ranked_sections = <<>>
    /\ output = NoOutput

NextLevel == CallGetHeadingLevel

SpecLevel == InitLevel /\ [][NextLevel]_vars

\* a numeric-dotted prefix: digit groups separated by single dots
IsDottedNumber(p) ==
    /\ Len(p) > 0
    /\ \A i \in 1..Len(p) : p[i] \in DigitChars \cup {"."}
    /\ p[1] /= "."
    /\ p[Len(p)] /= "."
    /\ \A i \in 1..(Len(p) - 1) : ~(p[i] = "." /\ p[i + 1] = ".")

\* the lengths of the prefixes of text that are numeric-dotted
DottedPrefixLengths(text) ==
    {k \in 1..Len(text) : IsDottedNumber(SubSeq(text, 1, k))}

DotsIn(p) == Cardinality({i \in 1..Len(p) : p[i] = "."})

\* C7: get_heading_level returns the number of dots of the leading
\* numeric-dotted prefix (the longest one, which is what the pattern matches)
\* plus one, and 1 for a text without such a prefix; "2.1.3 Methods" gives 3
\* and "Methods" gives 1.
C7_LevelIsDotsPlusOne ==
    pc = "returned" =>
        /\ DottedPrefixLengths(arg) /= {} =>
              ret = DotsIn(SubSeq(arg, 1, Max(DottedPrefixLengths(arg)))) + 1
        /\ DottedPrefixLengths(arg) = {} => ret = 1
        /\ arg = Chars("2.1.3 Methods") => ret = 3
        /\ arg = Chars("Methods") => ret = 1

\* a text with a two-dot prefix followed by other text has been given level 3
C7_Witness ==
    /\ pc = "returned"
    /\ arg = Chars("2.1.3 Methods")
    /\ ret = 3

---------------------------------------------------------------------------
(* build_hierarchy on synthetic level sequences *)

MaxHeadings == 5

MaxLevel == 3

\* the k-th heading candidate of a synthetic sequence of levels
SyntheticHeading(k, level) ==
    [page |-> 1, title |-> <<"h">>, font_size |-> HeadingSize, level |-> level,
     y0 |-> 100 + 20 * k]

LevelSequences == SeqsUpTo(1..MaxLevel, MaxHeadings)

InitBuild ==
    /\ pc = "build"
    /\ \E ls \in LevelSequences :
          headings = [k \in 1..Len(ls) |-> SyntheticHeading(k, ls[k])]
    /\ arg = <<>>
    /\ ret = 0
    /\ files = <<>>
    /\ focus = <<>>
    /\ job = <<>>
    /\ strategy = "none"
    /\ ranking_keywords = <<>>
    /\ doc_i = 1
    /\ nodes = <<>>
    /\ outline = <<>>
    /\ cleaned = <<>>
    /\ all_sections = <<>>
    /\ ranked_sections = <<>>
    /\ output = NoOutput

NextBuild == BuildHierarchy \/ CallFlattenOutline

SpecBuild == InitBuild /\ [][NextBuild]_vars

\* candidate i is still open when candidate c arrives: no candidate between
\* them has closed it (a level at most its own)
StillOpen(i, c) ==
    /\ i < c
    /\ \A k \in (i + 1)..(c - 1) : headings[k].level > headings[i].level

IsChildOf(c, p) == \E j \in 1..Len(nodes[p].subheadings) : nodes[p].subheadings[j] = c

IsRoot(c) == \E j \in 1..Len(outline) : outline[j] = c

\* C4: in the tree build_hierarchy returns, every child's candidate level is
\* strictly greater than its parent's candidate level, and a candidate is a
\* top-level root exactly when no earlier still-open candidate has a
\* strictly smaller level.
C4_ChildDeeperRootIffNoOpenShallower ==
    pc = "clean" =>
        /\ Len(nodes) = Len(headings)
        /\ \A p, c \in 1..Len(nodes) :
              IsChildOf(c, p) => headings[c].level > headings[p].level
        /\ \A c \in 1..Len(nodes) :
              IsRoot(c) <=>
                 ~\E i \in 1..(c - 1) :
                     StillOpen(i, c) /\ headings[i].level < headings[c].level

\* the level sequence [1,2,2,1,3] has been built: candidates 2 and 3 under
\* candidate 1, candidate 5 under candidate 4, candidates 1 and 4 the roots
C4_Witness ==
    /\ pc = "clean"
    /\ [k \in 1..Len(headings) |-> headings[k].level] = <<1, 2, 2, 1, 3>>
    /\ outline = <<1, 4>>
    /\ nodes[1].subheadings = <<2, 3>>
    /\ nodes[4].subheadings = <<5>>

---------------------------------------------------------------------------
(* clean_headings on lists of headings *)

MaxCleanLen == 2

CleanTitles ==
    {Chars("123"), Chars("www.example.com"), Chars("AB"), Chars("1. Introduction"),
     Chars(" AB "), Chars("12.5 %"), Chars("1-2, 3"), Chars("  7 "), Chars(""),
     Chars("Submitted to X"), Chars("SUBMITTED"), Chars("submit"),
     Chars("Resubmitted"), Chars("see www.x"), Chars("WWW.X"), Chars("A-1")}

InitClean ==
    /\ pc = "clean"
    /\ \E ts \in SeqsUpTo(CleanTitles, MaxCleanLen) :
          /\ nodes = [k \in 1..Len(ts) |->
                        NodeOf([page |-> 1, title |-> ts[k], font_size |-> HeadingSize,
                                y0 |-> 100 + 20 * k])]
          /\ outline = [k \in 1..Len(ts) |-> k]
    /\ arg = <<>>
    /\ ret = 0
    /\ files = <<>>
    /\ focus = <<>>
    /\ job = <<>>
    /\ strategy = "none"
    /\ ranking_keywords = <<>>
    /\ doc_i = 1
    /\ headings = <<>>
    /\ cleaned = <<>>
    /\ all_sections = <<>>
    /\ ranked_sections = <<>>
    /\ output = NoOutput

NextClean == CleanHeadings

SpecClean == InitClean /\ [][NextClean]_vars

\* the drop conditions, as the filter is described
MeetsDropCondition(title) ==
    LET t == Strip(title)
    IN  \/ Len(t) <= 2
        \/ Range(t) \subseteq (DigitChars \cup {" ", "%", ".", "-", ","})
        \/ \E i \in 1..(Len(t) - 3) : SubSeq(t, i, i + 3) = Chars("www.")
        \/ Len(t) >= 9 /\ Lower(SubSeq(t, 1, 9)) = Chars("submitted")

\* the titles of CleanTitles that meet a drop condition, listed by hand
TitlesToDrop ==
    {Chars("123"), Chars("www.example.com"), Chars("AB"), Chars(" AB "),
     Chars("12.5 %"), Chars("1-2, 3"), Chars("  7 "), Chars(""),
     Chars("Submitted to X"), Chars("SUBMITTED"), Chars("see www.x")}

\* C6: clean_headings drops a heading exactly when its trimmed title is
\* shorter than 3 characters, or is made only of digits, space, '%', '.',
\* '-', ',', or contains "www.", or starts with "submitted" in any case; the
\* kept headings stay in their input order.
C6_DropsExactlyNoise ==
    pc = "texts" =>
        /\ \A k \in 1..Len(outline) :
              (k \in Range(cleaned)) <=> ~MeetsDropCondition(nodes[k].title)
        /\ \A k \in 1..Len(outline) :
              (k \in Range(cleaned)) <=> nodes[k].title \notin TitlesToDrop
        /\ \A i, j \in 1..Len(cleaned) : i < j => cleaned[i] < cleaned[j]

\* "1. Introduction" and "www.example.com" were given: the first is kept,
\* the second dropped
C6_Witness ==
    /\ pc = "texts"
    /\ Len(outline) = 2
    /\ nodes[1].title = Chars("www.example.com")
    /\ nodes[2].title = Chars("1. Introduction")
    /\ cleaned = <<2>>

---------------------------------------------------------------------------
(* process_document on generated documents *)

MaxDocLines == 4

\* what a generated line can be: body text, a level-1 or level-2 heading, or
\* a heading of either level whose title meets a drop condition
LineKinds == {"body", "h1", "h2", "w1", "w2"}

\* the letter that makes the text of the k-th line of a document its own
Markers == Chars("abcdefgh")

LineSpecs == [brk : BOOLEAN, kind : LineKinds]

\* the text of the k-th line
KindText(kind, k) ==
    CASE kind = "body" -> "t" \o Markers[k]
      [] kind = "h1"   -> "1 H" \o Markers[k]
      [] kind = "h2"   -> "1.1 H" \o Markers[k]
      [] kind = "w1"   -> "www." \o Markers[k]
      [] kind = "w2"   -> "1.1 www." \o Markers[k]

\* the page the k-th line is on: a line with brk starts a new page
PageOfLine(ls, k) == 1 + Cardinality({j \in 1..k : ls[j].brk})

\* lines are 20 apart from offset 100 down each page
YOfLine(ls, k) ==
    100 + 20 * Cardinality({j \in 1..(k - 1) : PageOfLine(ls, j) = PageOfLine(ls, k)})

GeneratedLine(ls, k) ==
    Line(YOfLine(ls, k),
         IF ls[k].kind = "body" THEN BodySize ELSE HeadingSize,
         KindText(ls[k].kind, k))

GeneratedDoc(ls) ==
    [name |-> "generated.pdf",
     pages |->
        [p \in 1..(IF Len(ls) = 0 THEN 1 ELSE PageOfLine(ls, Len(ls))) |->
            Page([i \in 1..Cardinality({k \in 1..Len(ls) : PageOfLine(ls, k) = p}) |->
                    GeneratedLine(ls,
                        CHOOSE k \in 1..Len(ls) :
                            /\ PageOfLine(ls, k) = p
                            /\ Cardinality({j \in 1..k : PageOfLine(ls, j) = p}) = i)])]]

InitDoc ==
    /\ pc = "headings"
    /\ \E ls \in SeqsUpTo(LineSpecs, MaxDocLines) : files = <<GeneratedDoc(ls)>>
    /\ arg = <<>>
    /\ ret = 0
    /\ focus = <<>>
    /\ job = <<>>
    /\ strategy = "none"
    /\ ranking_keywords = <<>>
    /\ doc_i = 1
    /\ headings = <<>>
    /\ nodes = <<>>
    /\ outline = <<>>
    /\ cleaned = <<>>
    /\ all_sections = <<>>
    /\ ranked_sections = <<>>
    /\ output = NoOutput

NextDoc ==
    \/ ExtractHeadings
    \/ BuildHierarchy
    \/ CleanHeadings
    \/ ExtractSectionTexts
    \/ AddLanguage
    \/ ReturnSections

SpecDoc == InitDoc /\ [][NextDoc]_vars

\* the lines of the current document: [page, y, text], text stripped
DocLines ==
    UNION {{[page |-> p, y |-> y, text |-> Strip(CharsText(LineChars(doc.pages[p], y)))] :
              y \in LineKeys(doc.pages[p])} : p \in 1..Len(doc.pages)}

\* position (p1, y1) lies strictly before position (p2, y2) in the document
Before(p1, y1, p2, y2) == p1 < p2 \/ (p1 = p2 /\ y1 < y2)

\* C1: the text attached to a heading that has a next heading contains only
\* lines strictly after the heading and strictly before the next heading.
C1_TextOnlyBetweenHeadings ==
    pc \in {"language", "flatten"} =>
        LET flat == flatten_outline(cleaned, nodes)
        IN  \A i \in 1..(Len(flat) - 1) :
               \A l \in DocLines :
                  (l.text /= <<>> /\ Contains(nodes[flat[i]].text, l.text)) =>
                     /\ Before(nodes[flat[i]].page, nodes[flat[i]].y0, l.page, l.y)
                     /\ Before(l.page, l.y, nodes[flat[i + 1]].page, nodes[flat[i + 1]].y0)

\* the heading candidates of the document whose title meets no drop condition
\* are all among the sections
EveryCleanHeadingKept ==
    \A k \in 1..Len(headings) :
        ~MeetsDropCondition(headings[k].title) =>
            \E i \in 1..Len(all_sections) :
                /\ all_sections[i].title = headings[k].title
                /\ all_sections[i].page = headings[k].page
                /\ all_sections[i].y0 = headings[k].y0

\* C5: process_document filters the whole outline: no heading of any depth
\* that meets a drop condition is among the sections it returns, and every
\* heading that meets none is.
C5_FilterCoversWholeOutline ==
    pc = "rank" =>
        /\ \A i \in 1..Len(all_sections) : ~MeetsDropCondition(all_sections[i].title)
        /\ EveryCleanHeadingKept

\* the filter does reach the top level: no top-level node that meets a drop
\* condition is handed on
TopLevelFiltered ==
    pc \in {"texts", "language", "flatten"} =>
        \A j \in 1..Len(cleaned) : ~MeetsDropCondition(nodes[cleaned[j]].title)

---------------------------------------------------------------------------
(* The whole pipeline on small document sets *)

MaxDocs == 3

\* one heading "1 Overview" above one line of text
PagesOverview ==
    <<Page(<<Line(100, HeadingSize, "1 Overview"),
             Line(120, BodySize, "graph neural networks for drug discovery")>>)>>

\* text without any heading
PagesNoHeadings == <<Page(<<Line(100, BodySize, "of the")>>)>>

\* a footer-like heading, then a heading above stop words only, the text
\* at offset 140.5
PagesNotes ==
    <<Page(<<Line(100, HeadingSize, "www.site.org"),
             Line(120, HeadingSize, "2 Notes"),
             [i \in 1..6 |-> [text |-> Chars("Of the")[i], top2 |-> 281, size |-> BodySize]]>>)>>

\* a heading with a subheading on the first page, more text on a second page
PagesTwo ==
    <<Page(<<Line(100, HeadingSize, "1 Data"),
             Line(120, BodySize, "drug drug Graph"),
             Line(140, HeadingSize, "1.1 Nets"),
             Line(160, BodySize, "neural")>>),
      Page(<<Line(100, BodySize, "drug "),
             <<[text |-> JpChar, top2 |-> 200, size |-> BodySize]>>>>)>>

PagesLibrary == {PagesOverview, PagesNoHeadings, PagesNotes, PagesTwo}

\* os.path.basename of the i-th path
DocName(i) == "doc" \o ToString(i) \o ".pdf"

DocumentSets ==
    {[i \in 1..Len(ps) |-> [name |-> DocName(i), pages |-> ps[i]]] :
        ps \in SeqsUpTo(PagesLibrary, MaxDocs)}

\* focus_keywords_str and job_to_be_done_str of the form of app.py
FormInputs ==
    {<<Chars("graph neural networks"), Chars("of drug")>>,
     <<Chars("Drug, graph ,"), Chars("of drug")>>,
     <<Chars("zz"), Chars("the")>>}

\* persona.focus_areas and job_to_be_done of the input of main
MainInputs ==
    {<<(<<Chars("graph neural networks")>>), Chars("")>>,
     <<(<<Chars("Drug"), Chars("graph")>>), Chars("of drug")>>,
     <<(<<Chars("drug")>>), Chars("drug discovery")>>,
     <<(<<Chars("")>>), Chars("")>>,
     <<(<<>>), Chars("")>>}

Init ==
    /\ pc = "keywords"
    /\ files \in DocumentSets
    /\ \/ /\ strategy = "tfidf"
          /\ \E in \in FormInputs : focus = in[1] /\ job = in[2]
       \/ /\ strategy = "count"
          /\ \E in \in MainInputs : focus = in[1] /\ job = in[2]
    /\ arg = <<>>
    /\ ret = 0
    /\ ranking_keywords = <<>>
    /\ doc_i = 1
    /\ headings = <<>>
    /\ nodes = <<>>
    /\ outline = <<>>
    /\ cleaned = <<>>
    /\ all_sections = <<>>
    /\ ranked_sections = <<>>
    /\ output = NoOutput

Next ==
    \/ KeywordsTfidf
    \/ KeywordsCount
    \/ ExtractHeadings
    \/ BuildHierarchy
    \/ CleanHeadings
    \/ ExtractSectionTexts
    \/ AddLanguage
    \/ ReturnSections
    \/ RankTfidf
    \/ RankCount
    \/ AssignRanks
    \/ WriteReport

Spec == Init /\ [][Next]_vars

---------------------------------------------------------------------------
(* Properties of the rankers and of the whole pipeline *)

\* the ranker has just returned
Ranked == pc = "assign"

\* ranked entry r was made from section s
MadeFrom(r, s) ==
    /\ r.document = s.document
    /\ r.title = s.title
    /\ r.page = s.page

InOutput(s) == \E j \in 1..Len(ranked_sections) : MadeFrom(ranked_sections[j], s)

\* the index in all_sections of the section ranked entry r was made from
SourceIndex(r) == CHOOSE i \in 1..Len(all_sections) : MadeFrom(r, all_sections[i])

\* the terms of a text: its maximal runs of word characters that are two or
\* more long, lowercased, stop words left out
TermsOf(text) ==
    LET starts == {a \in 1..Len(text) :
                     IsWord(text[a]) /\ (a = 1 \/ ~IsWord(text[a - 1]))}
        ends   == {b \in 1..Len(text) :
                     IsWord(text[b]) /\ (b = Len(text) \/ ~IsWord(text[b + 1]))}
        EndOf(a) == CHOOSE b \in ends : b >= a /\ \A c \in ends : c >= a => b <= c
    IN  {Lower(SubSeq(text, a, EndOf(a))) : a \in {x \in starts : EndOf(x) > x}}
            \ EnglishStopWords

\* the terms of the query of the vector-space ranker
QueryTerms == UNION {TermsOf(ranking_keywords[k]) : k \in 1..Len(ranking_keywords)}

SharesTerm(s) == TermsOf(s.text) \cap QueryTerms /= {}

KeywordOccurs(s) ==
    \E k \in 1..Len(ranking_keywords) :
        \E at \in 1..(Len(s.text) - Len(ranking_keywords[k]) + 1) :
            Lower(SubSeq(s.text, at, at + Len(ranking_keywords[k]) - 1))
                = Lower(ranking_keywords[k])

\* C3: the count ranker returns a section if and only if its score, the sum
\* of the case-insensitive occurrence counts of the keywords in its text, is
\* greater than 0: no entry of score 0, no positive section lost.
C3_CountKeepsExactlyPositive ==
    (Ranked /\ strategy = "count") =>
        /\ \A i \in 1..Len(all_sections) :
              InOutput(all_sections[i]) <=> KeywordOccurs(all_sections[i])
        /\ \A j \in 1..Len(ranked_sections) : ranked_sections[j].score > 0
        /\ Len(ranked_sections) =
              Cardinality({i \in 1..Len(all_sections) : KeywordOccurs(all_sections[i])})

\* the count ranker has dropped a section in which no keyword occurs and
\* kept one in which a keyword occurs
C3_Witness ==
    /\ Ranked
    /\ strategy = "count"
    /\ \E i \in 1..Len(all_sections) :
          ~KeywordOccurs(all_sections[i]) /\ ~InOutput(all_sections[i])
    /\ \E i \in 1..Len(all_sections) :
          KeywordOccurs(all_sections[i]) /\ InOutput(all_sections[i])

\* the ranked sections as the report lists them
ReportedSections ==
    IF strategy = "tfidf" THEN output.ranked_sections ELSE output.extracted_sections

\* C8: under both strategies the ranked output carries the importance ranks
\* 1, 2, ..., n in output order, and the scores do not increase as the rank
\* increases.
C8_RanksCountUpScoresDown ==
    pc \in {"report", "done"} =>
        /\ \A j \in 1..Len(ranked_sections) : ranked_sections[j].importance_rank = j
        /\ \A j, k \in 1..Len(ranked_sections) :
              j < k => ranked_sections[j].score >= ranked_sections[k].score
        /\ pc = "done" =>
              /\ Len(ReportedSections) = Len(ranked_sections)
              /\ \A j \in 1..Len(ReportedSections) : ReportedSections[j].importance_rank = j

\* a report lists three sections of which the second scores below the first
\* and the third below the second
C8_Witness ==
    /\ pc = "done"
    /\ Len(ranked_sections) >= 3
    /\ ranked_sections[1].score > ranked_sections[2].score
    /\ ranked_sections[2].score > ranked_sections[3].score
    /\ ReportedSections[3].importance_rank = 3

\* the index in files of the document of that name
DocIndex(name) == CHOOSE i \in 1..Len(files) : files[i].name = name

\* the three-document scenario: each document one heading "1 Overview" above
\* the same text
ThreeOverviews ==
    /\ Len(files) = 3
    /\ \A i \in 1..3 : files[i].pages = PagesOverview

\* C9: the sections of all documents are concatenated in input-document
\* order before the one ranking step, and output sections of equal score
\* keep that merged order; so three documents with one equally scoring
\* section each get ranks 1, 2, 3 in document order, under both strategies.
C9_MergedOrderBreaksTies ==
    /\ pc \in {"rank", "assign", "report", "done"} =>
          \A i, j \in 1..Len(all_sections) :
              i < j => DocIndex(all_sections[i].document) <= DocIndex(all_sections[j].document)
    /\ pc \in {"assign", "report", "done"} =>
          \A j, k \in 1..Len(ranked_sections) :
              (j < k /\ ranked_sections[j].score = ranked_sections[k].score) =>
                  SourceIndex(ranked_sections[j]) < SourceIndex(ranked_sections[k])
    /\ (pc = "done" /\ ThreeOverviews /\ Len(ranked_sections) > 0) =>
          /\ Len(ranked_sections) = 3
          /\ \A j \in 1..3 :
                /\ ranked_sections[j].document = DocName(j)
                /\ ranked_sections[j].importance_rank = j
                /\ ranked_sections[j].score = ranked_sections[1].score

\* the three-document scenario has been ranked by the vector-space strategy:
\* three equal scores, the documents in input order
C9_Witness ==
    /\ pc = "done"
    /\ strategy = "tfidf"
    /\ ThreeOverviews
    /\ Len(ranked_sections) = 3
    /\ \A j \in 1..3 :
          /\ ranked_sections[j].document = DocName(j)
          /\ ranked_sections[j].importance_rank = j
          /\ ranked_sections[j].score = ranked_sections[1].score

\* C10: when no section survives in any document, the ranker returns an
\* empty list instead of failing, and the pipeline completes with a report
\* whose ranked sections are empty.
C10_NoSectionsEmptyReport ==
    (all_sections = <<>> /\ pc \in {"assign", "report", "done", "raised"}) =>
        /\ pc /= "raised"
        /\ ranked_sections = <<>>
        /\ pc = "done" => ReportedSections = <<>>

\* the vector-space pipeline has completed on documents without a section
C10_Witness ==
    /\ pc = "done"
    /\ strategy = "tfidf"
    /\ Len(files) > 0
    /\ all_sections = <<>>
    /\ output.ranked_sections = <<>>

\* the keyword list has been derived
KeywordsDerived == pc \in {"headings", "build", "clean", "texts", "language",
                           "flatten", "rank", "assign", "report", "done", "raised"}

\* C11: under both strategies the ranking keywords handed to the ranker are
\* a deduplicated set of lowercase strings: no keyword string occurs twice
\* (a term of both the focus keywords and the task description counts once).
C11_KeywordsDeduplicatedLowercase ==
    KeywordsDerived =>
        /\ \A i, j \in 1..Len(ranking_keywords) :
              i /= j => ranking_keywords[i] /= ranking_keywords[j]
        /\ \A k \in 1..Len(ranking_keywords) :
              Lower(ranking_keywords[k]) = ranking_keywords[k]

\* what does hold: the list of the vector-space strategy has no keyword
\* twice and is lowercase
KeywordsOfFormDeduplicated ==
    (KeywordsDerived /\ strategy = "tfidf") =>
        /\ \A i, j \in 1..Len(ranking_keywords) :
              i /= j => ranking_keywords[i] /= ranking_keywords[j]
        /\ \A k \in 1..Len(ranking_keywords) :
              Lower(ranking_keywords[k]) = ranking_keywords[k]

---------------------------------------------------------------------------
(* The pipeline run twice on the same documents and parameters.  ret holds *)
(* what the first run left (its ranking keywords, its ranked sections and  *)
(* its report or exception), arg marks that the second run is under way.   *)

MaxRerunDocs == 2

RerunDocumentSets ==
    {[i \in 1..Len(ps) |-> [name |-> DocName(i), pages |-> ps[i]]] :
        ps \in SeqsUpTo(PagesLibrary, MaxRerunDocs)}

SecondRun == <<"second run">>

InitTwice ==
    /\ pc = "keywords"
    /\ files \in RerunDocumentSets
    /\ \/ /\ strategy = "tfidf"
          /\ \E in \in FormInputs : focus = in[1] /\ job = in[2]
       \/ /\ strategy = "count"
          /\ \E in \in MainInputs : focus = in[1] /\ job = in[2]
    /\ arg = <<>>
    /\ ret = 0
    /\ ranking_keywords = <<>>
    /\ doc_i = 1
    /\ headings = <<>>
    /\ nodes = <<>>
    /\ outline = <<>>
    /\ cleaned = <<>>
    /\ all_sections = <<>>
    /\ ranked_sections = <<>>
    /\ output = NoOutput

\* the same call once more, in a fresh process: same documents and
\* parameters, every local variable new
RunAgain ==
    /\ pc \in {"done", "raised"}
    /\ arg = <<>>
    /\ arg' = SecondRun
    /\ ret' = [ended |-> pc,
               ranking_keywords |-> ranking_keywords,
               ranked_sections |-> ranked_sections,
               output |-> output]
    /\ pc' = "keywords"
    /\ ranking_keywords' = <<>>
    /\ doc_i' = 1
    /\ headings' = <<>>
    /\ nodes' = <<>>
    /\ outline' = <<>>
    /\ cleaned' = <<>>
    /\ all_sections' = <<>>
    /\ ranked_sections' = <<>>
    /\ output' = NoOutput
    /\ UNCHANGED <<files, focus, job, strategy>>

NextTwice ==
    \/ KeywordsTfidf
    \/ KeywordsCount
    \/ ExtractHeadings
    \/ BuildHierarchy
    \/ CleanHeadings
    \/ ExtractSectionTexts
    \/ AddLanguage
    \/ ReturnSections
    \/ RankTfidf
    \/ RankCount
    \/ AssignRanks
    \/ WriteReport
    \/ RunAgain

SpecTwice == InitTwice /\ [][NextTwice]_vars

\* C12: a second run of the pipeline on the same documents and parameters
\* ends as the first did, with the same ranked sections in the same order,
\* the same scores and ranks, and the same report (the timestamp and the
\* name of the output file are not part of the modelled report).
C12_SecondRunSameResult ==
    (arg = SecondRun /\ pc \in {"done", "raised"}) =>
        /\ ret.ended = pc
        /\ ret.ranked_sections = ranked_sections
        /\ ret.output = output

\* two runs of the vector-space pipeline got their keywords in different
\* orders from list(set(...)) and both ranked two sections or more
C12_Witness ==
    /\ arg = SecondRun
    /\ pc = "done"
    /\ strategy = "tfidf"
    /\ ret.ranking_keywords /= ranking_keywords
    /\ Len(ranked_sections) >= 2
    /\ ret.ranked_sections = ranked_sections

---------------------------------------------------------------------------
(* flatten_outline after build_hierarchy, under SpecBuild *)

\* C13: flatten_outline(build_hierarchy(headings)) lists exactly one node per
\* heading candidate, in the order of the input sequence: its i-th entry is
\* the node made for the i-th candidate, none lost and none listed twice.
C13_FlattenRestoresDocumentOrder ==
    pc = "flattened" =>
        /\ Len(ret) = Len(headings)
        /\ \A i \in 1..Len(ret) :
              /\ ret[i] = i
              /\ nodes[ret[i]].title = headings[i].title
              /\ nodes[ret[i]].page = headings[i].page
              /\ nodes[ret[i]].y0 = headings[i].y0

\* the tree of the level sequence [1,2,2,1,3], two roots with nested
\* subheadings, has been flattened into its five nodes in input order
C13_Witness ==
    /\ pc = "flattened"
    /\ [k \in 1..Len(headings) |-> headings[k].level] = <<1, 2, 2, 1, 3>>
    /\ outline = <<1, 4>>
    /\ nodes[1].subheadings = <<2, 3>>
    /\ ret = <<1, 2, 3, 4, 5>>

====
